---- MODULE Spec2Model ----
(***************************************************************************)
(* pyaxel (src/pyaxel/axel.py): a parallel, resumable HTTP downloader.     *)
(* One run of main(): get_file_info, resume_check, the pool of getter      *)
(* greenlets, stitch.  Files are sequences of bytes; the byte at offset k  *)
(* of the remote resource has the value k, so that equality of contents is *)
(* equality of sequences.                                                  *)
(***************************************************************************)
EXTENDS Integers, Sequences, FiniteSets, TLC

\* ---- bounds of the model ------------------------------------------------
MaxLen == 5
MaxCount == 3
MaxPartSize == 3
\* iter_content(4096), scaled down so that a segment takes several blocks
BlockSize == 2
\* the numeric extensions of the names on disk, and how many names there are
MaxSuffix == 1
MaxExisting == 3

\* ---- values ---------------------------------------------------------------
\* None, for a chunk resume_check found complete
NoChunk == <<>>
\* a byte that is not a byte of the resource (an error body, stale data)
ErrByte == 0 - 1
\* A file name is the sequence of its dot-separated components, a component
\* the sequence of its characters: the digits 0..9, and Letter for any other.
Letter == 10
\* "file" and "file.txt"
PlainName == << <<Letter>> >>
DottedName == << <<Letter>>, <<Letter>> >>
PartIdx == 0 .. (MaxCount - 1)
NoFile == [exists |-> FALSE, data |-> <<>>]
File(d) == [exists |-> TRUE, data |-> d]
Terminal == {"done", "aborted", "crashed", "interrupted"}

VARIABLES
    resource_length,  \* the length of the remote resource
    has_length,       \* whether the server's HEAD answer carries Content-Length
    urlname,          \* os.path.basename(self.url)
    existing,         \* the names of the output-like files on disk at the start
    dir0,             \* the part files on disk when the run starts
    count,            \* self.count
    content_length,   \* self.content_length
    chunk_size,       \* self.chunk_size
    chunks,           \* self.chunks
    filename,         \* self.filename
    startcount,       \* self.startcount
    globs,            \* resume_check's listing of the part files, in the order returned
    files,            \* self.files (the index i of '<filename>.part%03d')
    bytecount,        \* sum(bytecount), the list the getters append to
    parts,            \* the part files '<filename>.partNNN' on disk
    output,           \* the file self.filename on disk
    getters,          \* the state of each getter greenlet of the pool
    resp,             \* the unread rest of each getter's response body
    si,               \* stitch: the number of files copied, then unlinked
    pc,               \* where main() is
    exitcode,         \* the process's exit status, -1 while it runs
    sigint_at,        \* where main() was when SIGINT arrived, "none" before
    mon,              \* the state of the print_progress greenlet
    last_total,       \* self.last_total
    pbar              \* the position of the tqdm progress bar

vars == <<resource_length, has_length, urlname, existing, dir0, count,
          content_length, chunk_size, chunks, filename, startcount, globs,
          files, bytecount, parts, output, getters, resp, si, pc, exitcode, sigint_at,
          mon, last_total, pbar>>

\* what no step of the run changes
env == <<resource_length, has_length, urlname, existing, dir0, count>>

\* what only print_progress changes
monitor == <<last_total, pbar>>

\* ---- helpers ----------------------------------------------------------------
Min(a, b) == IF a < b THEN a ELSE b

\* the bytes of the resource at offsets a..b (inclusive)
Bytes(a, b) == [j \in 1 .. (b - a + 1) |-> a + j - 1]

RECURSIVE SumSeq(_)
SumSeq(s) == IF s = <<>> THEN 0 ELSE Head(s) + SumSeq(Tail(s))

Take(s, n) == SubSeq(s, 1, n)
Drop(s, n) == SubSeq(s, n + 1, Len(s))

\* every order in which a directory listing can return the names in S
Listings(S) ==
    {p \in [1 .. Cardinality(S) -> S] : \A a, b \in DOMAIN p : a # b => p[a] # p[b]}

\* ---- get_file_info ------------------------------------------------------------
\* Boundary taking the end offset of a chunk as exclusive
Boundary_Exclusive(i, cl, n) ==
    IF i = n - 1 THEN cl - 1 ELSE ((i + 1) * (cl \div n)) - 2

\* lines 72-78: chunk i of n over a resource of cl bytes (Python 2 integer division)
Boundary(i, cl, n) ==
    IF i = n - 1 THEN cl ELSE ((i + 1) * (cl \div n)) - 1

Chunk(i, cl, n) == <<i * (cl \div n), Boundary(i, cl, n)>>

Plan(cl, n) == [k \in 1 .. n |-> Chunk(k - 1, cl, n)]

\* line 82: os.path.splitext: the name before its last dot, and what follows
\* the dot ("" for a name without a dot)
Prefix(name) == IF Len(name) > 1 THEN SubSeq(name, 1, Len(name) - 1) ELSE name
Ext(name) == IF Len(name) > 1 THEN name[Len(name)] ELSE <<>>

\* line 83: str.isdigit
IsDigit(ext) == ext # <<>> /\ \A k \in DOMAIN ext : ext[k] < Letter

\* line 84: int(), of a string of digits
RECURSIVE ParseInt(_)
ParseInt(ds) ==
    IF ds = <<>> THEN 0 ELSE (10 * ParseInt(SubSeq(ds, 1, Len(ds) - 1))) + ds[Len(ds)]

\* line 85: '%s' of a number: its decimal digits, without leading zeros
RECURSIVE Decimal(_)
Decimal(n) == IF n < 10 THEN <<n>> ELSE Append(Decimal(n \div 10), n % 10)

\* NextName that appends '.0' whatever the extension is
NextName_AlwaysAppend(name) == Append(name, <<0>>)

\* lines 82-87: the name tried after name
NextName(name) ==
    IF IsDigit(Ext(name))
    THEN Append(Prefix(name), Decimal(ParseInt(Ext(name)) + 1))
    ELSE Append(name, <<0>>)

\* lines 80-87: the first name that is not a file, from name on
RECURSIVE FreeName(_, _)
FreeName(name, onDisk) ==
    IF name \notin onDisk THEN name ELSE FreeName(NextName(name), onDisk)

\* ---- resume_check ---------------------------------------------------------------
\* Verdict without the test size < chunk_size of line 100
Verdict_NoUpperBound(i, size, cs, chs) ==
    IF size = cs THEN "complete"
    ELSE IF size # chs[i + 1][2] THEN "partial"
    ELSE "mismatch"

\* lines 96-112: what resume_check makes of the i-th listed file, of the given size
Verdict(i, size, cs, chs) ==
    IF size = cs THEN "complete"
    ELSE IF size # chs[i + 1][2] /\ size < cs THEN "partial"
    ELSE "mismatch"

\* lines 101-104: the chunk still to fetch
Rest(i, size, cs, chs) == <<chs[i + 1][1] + size, ((i + 1) * cs) - 1>>

\* lines 94-112: the loop over the listing, from its i-th entry on
RECURSIVE ResumeLoop(_, _, _, _, _, _, _)
ResumeLoop(listing, i, dir, cs, chs, new_chunks, sc) ==
    IF i = Len(listing)
    THEN [ok |-> TRUE, chunks |-> new_chunks, startcount |-> sc]
    ELSE LET size == Len(dir[listing[i + 1]].data)
             v == Verdict(i, size, cs, chs)
         IN  IF v = "complete"
             THEN ResumeLoop(listing, i + 1, dir, cs, chs,
                             Append(new_chunks, NoChunk), Append(sc, size))
             ELSE IF v = "partial"
             THEN ResumeLoop(listing, i + 1, dir, cs, chs,
                             Append(new_chunks, Rest(i, size, cs, chs)),
                             Append(sc, size))
             ELSE [ok |-> FALSE, chunks |-> chs, startcount |-> sc]

\* line 91: the listing has one file per chunk
CountMatches(listing, n) == Len(listing) = n

\* CountMismatch that lets a listing shorter than the count pass
CountMismatch_OnlyMore(listing, n) == Len(listing) > n

\* line 118: files were listed, and (line 91) not as many as there are chunks
CountMismatch(listing, n) == listing # <<>>

\* ---- getter: the server's answer to 'Range: bytes=a-b' ----------------------------
\* A last-byte-pos below the first-byte-pos is no byte range: the header is
\* ignored and the whole resource is sent, or no byte is sent.  A range starting at or after the
\* end cannot be satisfied: the body is an error body, empty or not.  A range
\* reaching past the end is cut at the last byte.
ServerBodies(a, b, len) ==
    IF b < a THEN {Bytes(0, len - 1), <<>>}
    ELSE IF a >= len THEN {<<>>, <<ErrByte>>}
    ELSE {Bytes(a, Min(b, len - 1))}

\* ---- fetch -------------------------------------------------------------------------
\* FileList naming the part files from the last chunk to the first
FileList_Reversed(n) == [k \in 1 .. n |-> n - k]

\* FileList giving every getter the first part file
FileList_Same(n) == [k \in 1 .. n |-> 0]

\* line 179: the part files in the order fetch names them
FileList(n) == [k \in 1 .. n |-> k - 1]

\* Spawned without the test of line 180: a getter for every chunk
Spawned_Always(chunk) == TRUE

\* lines 180-182: whether a getter is spawned for the chunk
Spawned(chunk) == chunk # NoChunk

\* ---- the state after construction ----------------------------------------------------
\* what a part file of index i and the given size holds: the bytes an earlier
\* run with the same count wrote, and stale bytes beyond the resource's end
InitData(i, size, len, n) ==
    [j \in 1 .. size |->
        LET off == (i * (len \div n)) + j - 1
        IN  IF off < len THEN off ELSE ErrByte]

\* lines 42-56: the fields after construction, and the disk as the run finds it
Constructed ==
    /\ parts = dir0
    /\ content_length = 0
    /\ chunk_size = 0
    /\ chunks = <<>>
    /\ filename = <<>>
    /\ startcount = <<>>
    /\ globs = <<>>
    /\ files = <<>>
    /\ bytecount = 0
    /\ output = NoFile
    /\ getters = [i \in PartIdx |-> "none"]
    /\ resp = [i \in PartIdx |-> <<>>]
    /\ si = 0
    /\ pc = "start"
    /\ exitcode = 0 - 1
    /\ sigint_at = "none"
    /\ mon = "none"
    /\ last_total = 0
    /\ pbar = 0

Init ==
    /\ resource_length \in 0 .. MaxLen
    /\ has_length \in BOOLEAN
    /\ urlname = DottedName
    /\ existing \in SUBSET {DottedName, Append(DottedName, <<0>>)}
    /\ count \in 1 .. MaxCount
    /\ \E sizes \in [PartIdx -> (0 - 1) .. MaxPartSize] :
          dir0 = [i \in PartIdx |->
                    IF sizes[i] < 0 THEN NoFile
                    ELSE File(InitData(i, sizes[i], resource_length, count))]
    /\ Constructed

\* ---- the steps of main() ----------------------------------------------------------------
\* lines 69-87, with the HEAD request failing (requests raises, nothing catches it)
HeadFails ==
    /\ pc = "start"
    /\ pc' = "crashed"
    /\ exitcode' = 1
    /\ UNCHANGED <<mon, monitor, sigint_at, globs, env, content_length, chunk_size,
                   chunks, filename, startcount, files, bytecount, parts, output,
                   getters, resp, si>>

\* lines 69-87
GetFileInfo ==
    /\ pc = "start"
    /\ LET cl == IF has_length THEN resource_length ELSE 0
       IN  /\ content_length' = cl
           /\ chunk_size' = cl \div count
           /\ chunks' = Plan(cl, count)
    /\ filename' = FreeName(urlname, existing)
    /\ pc' = "planned"
    /\ UNCHANGED <<mon, monitor, sigint_at, globs, env, startcount, files, bytecount,
                   parts, output, getters, resp, si, exitcode>>

\* lines 89-123
ResumeCheck ==
    /\ pc = "planned"
    /\ globs' \in Listings({i \in PartIdx : parts[i].exists})
    /\    IF CountMatches(globs', count)
          THEN LET r == ResumeLoop(globs', 0, parts, chunk_size, chunks, <<>>, startcount)
               IN  /\ chunks' = r.chunks
                   /\ startcount' = r.startcount
                   /\ pc' = IF r.ok THEN "checked" ELSE "aborted"
                   /\ exitcode' = IF r.ok THEN exitcode ELSE 1
          ELSE IF CountMismatch(globs', count)
          THEN /\ pc' = "aborted"
               /\ exitcode' = 1
               /\ UNCHANGED <<chunks, startcount>>
          ELSE /\ pc' = "checked"
               /\ UNCHANGED <<chunks, startcount, exitcode>>
    /\ UNCHANGED <<mon, monitor, sigint_at, env, content_length, chunk_size, filename,
                   files, bytecount, parts, output, getters, resp, si>>

\* lines 171-182: the pools, print_progress spawned, and the spawn loop, which
\* does not yield
Spawn ==
    /\ pc = "checked"
    /\ bytecount' = 0
    /\ files' = FileList(Len(chunks))
    /\ getters' = [i \in PartIdx |->
                     IF i < Len(chunks) /\ Spawned(chunks[i + 1])
                     THEN "spawned" ELSE "none"]
    /\ mon' = "spawned"
    /\ pc' = "fetching"
    /\ UNCHANGED <<monitor, sigint_at, globs, env, content_length, chunk_size, chunks,
                   filename, startcount, parts, output, resp, si, exitcode>>

\* lines 135-139: the request is answered and the part file opened for append
GetterStart(i) ==
    /\ pc = "fetching"
    /\ getters[i] = "spawned"
    /\ \E body \in ServerBodies(chunks[i + 1][1], chunks[i + 1][2], resource_length) :
          resp' = [resp EXCEPT ![i] = body]
    /\ parts' = [parts EXCEPT ![files[i + 1]] = File(parts[files[i + 1]].data)]
    /\ getters' = [getters EXCEPT ![i] = "streaming"]
    /\ UNCHANGED <<mon, monitor, sigint_at, globs, env, content_length, chunk_size,
                   chunks, filename, startcount, files, bytecount, output, si, pc,
                   exitcode>>

\* line 138: the request raises; the greenlet dies before it opens its file
GetterConnectFails(i) ==
    /\ pc = "fetching"
    /\ getters[i] = "spawned"
    /\ getters' = [getters EXCEPT ![i] = "failed"]
    /\ UNCHANGED <<mon, monitor, sigint_at, globs, env, content_length, chunk_size,
                   chunks, filename, startcount, files, bytecount, parts, output, resp,
                   si, pc, exitcode>>

\* lines 140-145: one block is read, counted, written and flushed
GetterBlock(i) ==
    /\ pc = "fetching"
    /\ getters[i] = "streaming"
    /\ resp[i] # <<>>
    /\ LET n == Min(BlockSize, Len(resp[i]))
       IN  /\ bytecount' = bytecount + n
           /\ parts' = [parts EXCEPT ![files[i + 1]] =
                          File(parts[files[i + 1]].data \o Take(resp[i], n))]
           /\ resp' = [resp EXCEPT ![i] = Drop(resp[i], n)]
    /\ UNCHANGED <<mon, monitor, sigint_at, globs, env, content_length, chunk_size,
                   chunks, filename, startcount, files, output, getters, si, pc,
                   exitcode>>

\* lines 140-142: the body is exhausted
GetterEnd(i) ==
    /\ pc = "fetching"
    /\ getters[i] = "streaming"
    /\ resp[i] = <<>>
    /\ getters' = [getters EXCEPT ![i] = "done"]
    /\ UNCHANGED <<mon, monitor, sigint_at, globs, env, content_length, chunk_size,
                   chunks, filename, startcount, files, bytecount, parts, output, resp,
                   si, pc, exitcode>>

\* line 140: the connection breaks while the body is read; the greenlet dies
GetterStreamFails(i) ==
    /\ pc = "fetching"
    /\ getters[i] = "streaming"
    /\ resp[i] # <<>>
    /\ getters' = [getters EXCEPT ![i] = "failed"]
    /\ resp' = [resp EXCEPT ![i] = <<>>]
    /\ UNCHANGED <<mon, monitor, sigint_at, globs, env, content_length, chunk_size,
                   chunks, filename, startcount, files, bytecount, parts, output, si,
                   pc, exitcode>>

\* lines 161, 184: no getter is in the pool (pool.free_count() == pool.size)
PoolIdle == \A i \in PartIdx : getters[i] \in {"none", "done", "failed"}

\* Join without the wait of p.join()
Join_NoWait ==
    /\ pc = "fetching"
    /\ pc' = "stitch"
    /\ UNCHANGED <<mon, monitor, sigint_at, globs, env, content_length, chunk_size,
                   chunks, filename, startcount, files, bytecount, parts, output,
                   getters, resp, si, exitcode>>

\* line 184, lines 199-201: p.join() returns once no greenlet of the pool runs,
\* whether they returned or raised, and fetch_n_stitch goes on to stitch
Join ==
    /\ pc = "fetching"
    /\ PoolIdle
    /\ pc' = "stitch"
    /\ UNCHANGED <<mon, monitor, sigint_at, globs, env, content_length, chunk_size,
                   chunks, filename, startcount, files, bytecount, parts, output,
                   getters, resp, si, exitcode>>

\* line 191: the output file is opened for writing
StitchOpen ==
    /\ pc = "stitch"
    /\ output' = File(<<>>)
    /\ si' = 0
    /\ pc' = "copying"
    /\ UNCHANGED <<mon, monitor, sigint_at, globs, env, content_length, chunk_size,
                   chunks, filename, startcount, files, bytecount, parts, getters, resp,
                   exitcode>>

\* StitchCopy removing each part file as soon as it is copied
StitchCopy_UnlinkEach ==
    /\ pc = "copying"
    /\ LET f == files[si + 1]
       IN  IF parts[f].exists
           THEN /\ output' = File(output.data \o parts[f].data)
                /\ parts' = [parts EXCEPT ![f] = NoFile]
                /\ si' = IF si + 1 = Len(files) THEN 0 ELSE si + 1
                /\ pc' = IF si + 1 = Len(files) THEN "done" ELSE "copying"
                /\ exitcode' = IF si + 1 = Len(files) THEN 0 ELSE exitcode
           ELSE /\ pc' = "crashed"
                /\ exitcode' = 1
                /\ UNCHANGED <<output, si, parts>>
    /\ UNCHANGED <<mon, monitor, sigint_at, globs, env, content_length, chunk_size,
                   chunks, filename, startcount, files, bytecount, getters, resp>>

\* lines 192-194: the next file of self.files is copied; a file that does not
\* exist raises IOError, which nothing catches
StitchCopy ==
    /\ pc = "copying"
    /\ LET f == files[si + 1]
       IN  IF parts[f].exists
           THEN /\ output' = File(output.data \o parts[f].data)
                /\ si' = IF si + 1 = Len(files) THEN 0 ELSE si + 1
                /\ pc' = IF si + 1 = Len(files) THEN "unlinking" ELSE "copying"
                /\ UNCHANGED exitcode
           ELSE /\ pc' = "crashed"
                /\ exitcode' = 1
                /\ UNCHANGED <<output, si>>
    /\ UNCHANGED <<mon, monitor, sigint_at, globs, env, content_length, chunk_size,
                   chunks, filename, startcount, files, bytecount, parts, getters,
                   resp>>

\* lines 196-197: the next file of self.files is removed; main() returns after the last
StitchUnlink ==
    /\ pc = "unlinking"
    /\ parts' = [parts EXCEPT ![files[si + 1]] = NoFile]
    /\ si' = si + 1
    /\ pc' = IF si + 1 = Len(files) THEN "done" ELSE "unlinking"
    /\ exitcode' = IF si + 1 = Len(files) THEN 0 ELSE exitcode
    /\ UNCHANGED <<mon, monitor, sigint_at, globs, env, content_length, chunk_size,
                   chunks, filename, startcount, files, bytecount, output, getters,
                   resp>>

\* catch_ctrl_c without its sys.exit(0): the handler returns and the run goes on
catch_ctrl_c_NoExit ==
    /\ pc \notin Terminal
    /\ sigint_at = "none"
    /\ sigint_at' = pc
    /\ UNCHANGED <<mon, monitor, globs, env, content_length, chunk_size, chunks,
                   filename, startcount, files, bytecount, parts, output, getters, resp,
                   si, pc, exitcode>>

\* lines 36-38, 43: SIGINT runs catch_ctrl_c, whose sys.exit(0) ends the process
catch_ctrl_c ==
    /\ pc \notin Terminal
    /\ sigint_at' = pc
    /\ pc' = "interrupted"
    /\ exitcode' = 0
    /\ UNCHANGED <<mon, monitor, globs, env, content_length, chunk_size, chunks,
                   filename, startcount, files, bytecount, parts, output, getters, resp,
                   si>>

Next ==
    \/ HeadFails
    \/ GetFileInfo
    \/ ResumeCheck
    \/ Spawn
    \/ \E i \in PartIdx : GetterStart(i)
    \/ \E i \in PartIdx : GetterConnectFails(i)
    \/ \E i \in PartIdx : GetterBlock(i)
    \/ \E i \in PartIdx : GetterEnd(i)
    \/ \E i \in PartIdx : GetterStreamFails(i)
    \/ Join
    \/ StitchOpen
    \/ StitchCopy
    \/ StitchUnlink
    \/ catch_ctrl_c

\* The steps of print_progress change last_total and pbar only, which no other
\* step reads: Spec leaves them out, SpecMonitor below takes them.
Spec == Init /\ [][Next]_vars

\* ---- print_progress ------------------------------------------------------------------
\* lines 154-162: whether a poll that reads the given total and pool leaves the loop
Breaks(total, idle) == total # 0 /\ idle

\* lines 148-150: the greenlet starts: the bar is seeded with the resumed bytes
MonitorStart ==
    /\ pc = "fetching"
    /\ mon = "spawned"
    /\ last_total' = SumSeq(startcount)
    /\ pbar' = SumSeq(startcount)
    /\ mon' = "polling"
    /\ UNCHANGED <<sigint_at, globs, env, content_length, chunk_size, chunks, filename,
                   startcount, files, bytecount, parts, output, getters, resp, si, pc,
                   exitcode>>

\* lines 151-164: one turn of the loop, after its sleep
MonitorPoll ==
    /\ pc = "fetching"
    /\ mon = "polling"
    /\ LET total == bytecount
           t == (total + SumSeq(startcount)) - last_total
       IN  /\ pbar' = IF t > 0 THEN pbar + t ELSE pbar
           /\ mon' = IF Breaks(total, PoolIdle) THEN "done" ELSE "polling"
           /\ last_total' = IF total = 0 \/ PoolIdle
                            THEN last_total ELSE total + SumSeq(startcount)
    /\ UNCHANGED <<sigint_at, globs, env, content_length, chunk_size, chunks, filename,
                   startcount, files, bytecount, parts, output, getters, resp, si, pc,
                   exitcode>>

\* a run from a directory without part files, or with one part file per chunk
InitMonitor ==
    /\ resource_length \in 0 .. MaxLen
    /\ has_length = TRUE
    /\ urlname = DottedName
    /\ existing = {}
    /\ count \in 1 .. MaxCount
    /\ \E sizes \in [PartIdx -> (0 - 1) .. MaxPartSize] :
          /\ \/ \A i \in PartIdx : sizes[i] < 0
             \/ \A i \in PartIdx : sizes[i] >= 0 <=> i < count
          /\ dir0 = [i \in PartIdx |->
                       IF sizes[i] < 0 THEN NoFile
                       ELSE File(InitData(i, sizes[i], resource_length, count))]
    /\ Constructed

NextMonitor == Next \/ MonitorStart \/ MonitorPoll

SpecMonitor == InitMonitor /\ [][NextMonitor]_vars

\* ---- the output name alone: get_file_info over a directory of numbered names ----------
\* the extensions on disk: the numbers up to MaxSuffix and 9, also zero-padded
Numerals ==
    UNION {{Decimal(k), <<0>> \o Decimal(k)} : k \in (0 .. MaxSuffix) \cup {9}}

NameUniverse ==
    {PlainName, DottedName}
        \cup {Append(n, d) : n \in {PlainName, DottedName}, d \in Numerals}

InitName ==
    /\ resource_length = 0
    /\ has_length = TRUE
    /\ count = 1
    /\ dir0 = [i \in PartIdx |-> NoFile]
    /\ urlname \in NameUniverse
    /\ existing \in {e \in SUBSET NameUniverse : Cardinality(e) <= MaxExisting}
    /\ Constructed

SpecName == InitName /\ [][GetFileInfo]_vars

TypeOK ==
    /\ pc \in {"start", "planned", "checked", "fetching", "stitch", "copying",
               "unlinking"} \cup Terminal
    /\ exitcode \in {0 - 1, 0, 1}
    /\ count \in 1 .. MaxCount
    /\ mon \in {"none", "spawned", "polling", "done"}
    /\ sigint_at \in {"none", "start", "planned", "checked", "fetching", "stitch",
                     "copying", "unlinking"}

\* ---- the plan as section 4.1 of the specification states it -----------------------------
\* the content length the run plans with
PlanLen == IF has_length THEN resource_length ELSE 0
SegStart(i) == i * (PlanLen \div count)
SegEnd(i) == IF i = count - 1 THEN PlanLen - 1 ELSE ((i + 1) * (PlanLen \div count)) - 1
\* the full byte length of segment i
SegLen(i) == SegEnd(i) - SegStart(i) + 1
Segments == 0 .. (count - 1)
\* the part files found when the run starts, and their sizes
Present0 == {i \in PartIdx : dir0[i].exists}
Size0(i) == Len(dir0[i].data)
\* main() is past resume_check and still running, or has finished
PastResume == {"checked", "fetching", "stitch", "copying", "unlinking", "done"}
\* resume_check's listing came in the order of the segment indexes
ListedInOrder == \A k \in 1 .. Len(globs) : globs[k] = k - 1
FetchPhase == {"start", "planned", "checked", "fetching"}

RECURSIVE ConcatParts(_)
\* part 0, then part 1, ..., then part k-1
ConcatParts(k) == IF k = 0 THEN <<>> ELSE ConcatParts(k - 1) \o parts[k - 1].data

RECURSIVE SumLen(_)
SumLen(k) == IF k = 0 THEN 0 ELSE SumLen(k - 1) + Len(parts[k - 1].data)

\* ---- C1 ------------------------------------------------------------------------------------
\* C1: get_file_info produces exactly N segments with inclusive ends: segment 0
\* starts at 0, segment i+1 starts at end(i)+1, and the last segment ends at
\* L-1, so that they cover [0, L) exactly.
C1_PlanCoversExactly ==
    pc = "planned" =>
        /\ Len(chunks) = count
        /\ chunks[1][1] = 0
        /\ \A k \in 1 .. (count - 1) : chunks[k + 1][1] = chunks[k][2] + 1
        /\ chunks[count][2] = content_length - 1

\* ---- C2 ------------------------------------------------------------------------------------
\* every segment has its part file, of the segment's full length
AllPartsFull == Present0 = Segments /\ \A i \in Segments : Size0(i) = SegLen(i)

\* C2: when all N part files exist with the full length of their segments,
\* resume_check marks every segment complete (it does not abort), fetch spawns
\* no getter, and stitch writes an output of length L.
C2_FullPartsNeedNoFetch ==
    AllPartsFull =>
        /\ pc # "aborted"
        /\ pc = "checked" => \A k \in 1 .. count : chunks[k] = NoChunk
        /\ pc = "fetching" => \A i \in PartIdx : getters[i] = "none"
        /\ pc \in {"unlinking", "done"} => Len(output.data) = PlanLen

\* ---- C3 ------------------------------------------------------------------------------------
\* every segment has its part file, shorter than the segment
AllPartsShort == Present0 = Segments /\ \A i \in Segments : Size0(i) < SegLen(i)

\* C3: a part file of size s, 0 <= s < the full length of its segment i, does
\* not make resume_check abort: segment i is to be fetched from start(i)+s on,
\* and s is recorded as bytes already there (also when the listing is in the
\* order of the segment indexes).
C3_ShortPartIsResumed ==
    (AllPartsShort /\ ListedInOrder) =>
        /\ pc # "aborted"
        /\ pc = "checked" =>
              \A i \in Segments :
                  /\ chunks[i + 1] # NoChunk
                  /\ chunks[i + 1][1] = SegStart(i) + Size0(i)
                  /\ startcount[i + 1] = Size0(i)

\* ---- C4 ------------------------------------------------------------------------------------
\* every segment has its part file, no longer than the segment
AllPartsPrefixes == Present0 = Segments /\ \A i \in Segments : Size0(i) <= SegLen(i)
\* segment i has a part file that is started and not complete
Started(i) == 0 < Size0(i) /\ Size0(i) < SegLen(i)

\* C4: the range of a segment resumed from a part file of size s, 0 < s < the
\* segment's length, keeps the segment's end offset, so that the part file has
\* the segment's full length once its getter has finished (also when the
\* listing is in the order of the segment indexes).
C4_ResumedPartGetsFullLength ==
    (AllPartsPrefixes /\ ListedInOrder) =>
        /\ pc = "checked" =>
              \A i \in Segments :
                  (Started(i) /\ chunks[i + 1] # NoChunk) => chunks[i + 1][2] = SegEnd(i)
        /\ pc = "fetching" =>
              \A i \in Segments :
                  (Started(i) /\ getters[i] = "done") => Len(parts[i].data) = SegLen(i)

\* ---- C5 ------------------------------------------------------------------------------------
\* as many part files as segments, one of them longer than its segment
OversizedPart ==
    /\ Cardinality(Present0) = count
    /\ \E i \in Present0 \cap Segments : Size0(i) > SegLen(i)

\* C5: with N part files of which one is longer than its segment, the run
\* never gets past resume_check, where it exits with code 1: no getter is
\* spawned, no part file is created, appended to or deleted, and the output
\* file is never opened.
C5_OversizedPartAborts ==
    OversizedPart =>
        /\ pc \notin PastResume
        /\ pc = "aborted" => exitcode = 1
        /\ parts = dir0
        /\ output = NoFile
        /\ \A i \in PartIdx : getters[i] = "none"

C5_Witness == OversizedPart /\ pc = "aborted" /\ exitcode = 1 /\ sigint_at = "none"

\* ---- C6 ------------------------------------------------------------------------------------
\* some part files, but not as many as segments
WrongCount == Present0 # {} /\ Cardinality(Present0) # count

\* C6: with k part files, k > 0 and k # N, the run never gets past
\* resume_check, where it exits with code 1; no getter is spawned and the part
\* files, their sizes and the output file are as they were.
C6_WrongCountAborts ==
    WrongCount =>
        /\ pc \notin PastResume
        /\ pc = "aborted" => exitcode = 1
        /\ parts = dir0
        /\ output = NoFile
        /\ \A i \in PartIdx : getters[i] = "none"

C6_Witness ==
    /\ WrongCount
    /\ Cardinality(Present0) < count
    /\ pc = "aborted"
    /\ exitcode = 1

\* ---- C7 ------------------------------------------------------------------------------------
\* C7: whatever the order in which the getters ran and finished, stitch writes
\* part 0, then part 1, ..., then part N-1: after k files the output is the
\* concatenation of parts 0..k-1, and after the last one its length is the sum
\* of the lengths of the part files.
C7_StitchInIndexOrder ==
    /\ pc = "copying" => output.data = ConcatParts(si)
    /\ (pc = "crashed" /\ output.exists) => output.data = ConcatParts(si)
    /\ (pc = "unlinking" /\ si = 0) =>
          /\ output.data = ConcatParts(count)
          /\ Len(output.data) = SumLen(count)

C7_Witness ==
    /\ pc = "unlinking"
    /\ si = 0
    /\ count = 3
    /\ Len(parts[0].data) = 1
    /\ Len(parts[2].data) = 3
    /\ output.data = <<0, 1, 2, 3, 4>>

\* ---- C8 ------------------------------------------------------------------------------------
\* C8: once a getter has failed, the run does not go on to stitch: the output
\* file is never created and no part file is deleted.
C8_FailedFetchPreventsStitch ==
    (\E i \in PartIdx : getters[i] = "failed") =>
        /\ pc \notin {"copying", "unlinking", "done"}
        /\ output = NoFile
        /\ \A i \in PartIdx : dir0[i].exists => parts[i].exists

\* ---- C9 ------------------------------------------------------------------------------------
\* what an interrupted run leaves: a part file per segment, each a prefix of
\* its segment
LeftByInterruptedRun == has_length /\ AllPartsPrefixes

\* C9: a run that finds the part files an interrupted run with the same count
\* left accepts them (no mismatch abort) and, when no getter fails, ends with
\* an output file equal to the resource (also when the listing is in the order
\* of the segment indexes).
C9_InterruptedRunResumes ==
    (LeftByInterruptedRun /\ ListedInOrder) =>
        /\ pc # "aborted"
        /\ (pc = "done" /\ \A i \in PartIdx : getters[i] # "failed") =>
              output.data = Bytes(0, resource_length - 1)

\* ---- C10 -----------------------------------------------------------------------------------
\* C10: SIGINT ends the process (exit code 0); when it arrives during the
\* fetch phase the output file does not exist and is never created, and no
\* part file changes from then on.
C10_InterruptStopsRun ==
    /\ [](sigint_at # "none" => pc = "interrupted" /\ exitcode = 0)
    /\ [][sigint_at' \in FetchPhase => (parts' = parts /\ output' = NoFile)]_vars

C10_Witness ==
    /\ sigint_at = "fetching"
    /\ pc = "interrupted"
    /\ \E i \in PartIdx :
          /\ getters[i] = "streaming"
          /\ resp[i] # <<>>
          /\ Len(parts[i].data) > Len(dir0[i].data)

\* ---- C11 -----------------------------------------------------------------------------------
\* the j-th name of the sequence name, name.0, name.1, ...; from a name with a
\* numeric extension k the sequence is name, prefix.(k+1), prefix.(k+2), ...
Candidate(name, j) ==
    IF j = 0 THEN name
    ELSE IF IsDigit(Ext(name))
    THEN Append(Prefix(name), Decimal(ParseInt(Ext(name)) + j))
    ELSE Append(name, Decimal(j - 1))

\* C11: the output name get_file_info computes is not a file on disk, and it
\* is the first such name of the sequence name, name.0, name.1, ... (a numeric
\* extension is incremented instead); the search takes at most as many steps
\* as there are files.
C11_FirstFreeName ==
    pc = "planned" =>
        /\ filename \notin existing
        /\ \E j \in 0 .. Cardinality(existing) :
              /\ filename = Candidate(urlname, j)
              /\ \A m \in 0 .. (j - 1) : Candidate(urlname, m) \in existing

C11_Witness ==
    /\ pc = "planned"
    /\ urlname = DottedName
    /\ existing = {DottedName, Append(DottedName, <<0>>)}
    /\ filename = Append(DottedName, <<1>>)

\* ---- C12 -----------------------------------------------------------------------------------
\* the HEAD request raised, or its answer carries no Content-Length
NoMetadata == ~has_length \/ (pc = "crashed" /\ chunks = <<>>)

\* C12: when the metadata request yields no content length the run fails
\* before any file I/O: no getter is spawned, no part file is created or
\* changed, the output file is never created, and the run does not end well.
C12_NoLengthIsFatal ==
    NoMetadata =>
        /\ \A i \in PartIdx : getters[i] = "none"
        /\ parts = dir0
        /\ output = NoFile
        /\ pc # "done"

\* ---- C13 -----------------------------------------------------------------------------------
\* C13: fetch returns, and stitch opens and writes the output file, only when
\* every spawned getter has finished, by returning or by raising: no getter
\* is waiting or running while main() is past p.join() or the output exists.
C13_StitchAfterAllFetches ==
    (pc \in {"stitch", "copying", "unlinking", "done"} \/ output.exists) =>
        \A i \in PartIdx : getters[i] \in {"none", "done", "failed"}

C13_Witness ==
    /\ pc = "copying"
    /\ output.exists
    /\ \E i \in PartIdx : getters[i] = "done"
    /\ \E i \in PartIdx : getters[i] = "failed"

\* ---- C14 -----------------------------------------------------------------------------------
\* C14: once every spawned getter has finished (also when none was spawned,
\* and when no byte was transferred), the monitor's next poll finds the pool
\* idle and ends the monitor.
C14_IdlePoolEndsMonitor ==
    (pc = "fetching" /\ mon = "polling" /\ PoolIdle) => Breaks(bytecount, PoolIdle)

\* ---- C15 -----------------------------------------------------------------------------------
\* some part file is on disk before the step and not after it
PartRemoved == \E i \in PartIdx : parts[i].exists /\ ~parts'[i].exists

\* stitch leaves its copy loop and starts to remove the part files
CopyEnds == pc = "copying" /\ pc' = "unlinking"

\* C15: a part file is removed only once all N part files have been copied:
\* when the copy loop ends all of them are on disk and the output file is their
\* concatenation, a part file is removed only after that and with the output
\* left as it is, and while stitch copies, however it ends, no part file
\* changes.
C15_UnlinkAfterCopy ==
    [][/\ CopyEnds => /\ \A i \in Segments : parts[i].exists
                      /\ output'.data = ConcatParts(count)
       /\ PartRemoved => (pc = "unlinking" /\ output' = output)
       /\ (pc \in {"stitch", "copying"}) => (parts' = parts)]_vars

C15_Witness ==
    /\ pc = "unlinking"
    /\ si = 1
    /\ ~parts[0].exists
    /\ parts[1].exists
    /\ Len(parts[1].data) > 0
    /\ Len(output.data) > Len(parts[1].data)

\* ---- C16 -----------------------------------------------------------------------------------
\* resume_check has marked segment i complete
MarkedComplete(i) ==
    pc \in {"checked", "fetching"} /\ i < Len(chunks) /\ chunks[i + 1] = NoChunk

\* C16: for a segment that resume_check marked complete, fetch spawns no
\* getter and sends no request, nothing writes to its part file while the
\* getters run, and its part file is handed to stitch at the position of its
\* segment index.
C16_CompleteSegmentIsSkipped ==
    [][\A i \in PartIdx : MarkedComplete(i) =>
          /\ getters'[i] = "none"
          /\ resp'[i] = resp[i]
          /\ parts'[i] = parts[i]
          /\ pc' \in {"fetching", "stitch"} =>
                (i < Len(files') /\ files'[i + 1] = i)]_vars

C16_Witness ==
    /\ pc = "stitch"
    /\ count = 2
    /\ chunks[1] = NoChunk
    /\ getters[0] = "none"
    /\ getters[1] = "done"
    /\ files = <<0, 1>>
    /\ parts[0] = dir0[0]
    /\ Len(parts[0].data) > 0
    /\ Len(parts[1].data) > Len(dir0[1].data)

\* ---- C17 -----------------------------------------------------------------------------------
\* C17: when the part files 0 .. N-1 are on disk, resume_check settles segment
\* i by the size of part file i, in whatever order the listing names the files:
\* the bytes it counts as already fetched for segment i are those of the part
\* file that the getter of segment i appends to.
C17_SegmentPairedWithOwnPart ==
    (pc = "checked" /\ Present0 = Segments) =>
        \A i \in Segments : startcount[i + 1] = Size0(i)

\* ---- C18 -----------------------------------------------------------------------------------
\* the progress total: the sizes resume_check counted plus the block lengths
\* the getters reported
ProgressTotal == SumSeq(startcount) + bytecount
\* every getter that was spawned has run to its end
AllFetched == \A i \in Segments : getters[i] \in {"none", "done"}

\* C18: while the getters run the progress total is the number of bytes in
\* the part files and at most the content length L, and when every getter
\* has finished without a failure it is L.
C18_ProgressTotal ==
    has_length =>
        /\ pc = "fetching" =>
              /\ ProgressTotal = SumLen(MaxCount)
              /\ ProgressTotal <= content_length
        /\ (pc = "stitch" /\ AllFetched) => ProgressTotal = content_length

\* ---- C19 -----------------------------------------------------------------------------------
\* the getters that were spawned, and those of them still in the pool
Tasks == {i \in PartIdx : getters[i] # "none"}
Active == {i \in PartIdx : getters[i] \in {"spawned", "streaming"}}
\* the part file getter i was given
FileOf(i) == files[i + 1]
\* part file f is changed by the step
Touched(f) == parts'[f] # parts[f]

\* C19: at most N getters are in the pool at a time, no two getters, running
\* or finished, are given the same part file, a part file changes while the
\* getters run only by the one running getter it was given to, and stitch
\* copies and removes part files only when no getter is left in the pool.
C19_ExclusivePartFiles ==
    [][/\ Cardinality(Active) <= count
       /\ \A i \in Tasks : i < Len(files)
       /\ \A i \in Tasks : \A j \in Tasks : i # j => FileOf(i) # FileOf(j)
       /\ \A f \in PartIdx : (pc = "fetching" /\ Touched(f)) =>
              \E i \in Active : FileOf(i) = f
       /\ (pc' \in {"copying", "unlinking"}) => (Active = {})
       /\ \A f \in PartIdx : (pc # "fetching" /\ Touched(f)) =>
              (pc = "unlinking" /\ Active = {})]_vars

C19_Witness ==
    /\ pc = "fetching"
    /\ count = 2
    /\ getters[0] = "streaming"
    /\ getters[1] = "streaming"
    /\ Len(parts[0].data) > 0
    /\ Len(parts[1].data) > 0
    /\ dir0[0] = NoFile
    /\ dir0[1] = NoFile

\* ---- C20 -----------------------------------------------------------------------------------
\* the bytes of the resource at the offsets chunk[1] .. chunk[2]
ExactRange(chunk) == Bytes(chunk[1], Min(chunk[2], resource_length - 1))
\* a run that found no part file, whose getters all ran to their end, each
\* with a body of exactly the bytes at the offsets of its range
FreshExactRun ==
    /\ has_length
    /\ Present0 = {}
    /\ AllFetched
    /\ \A i \in Segments : parts[i] = File(ExactRange(chunks[i + 1]))

\* C20: in a run that finds no part file and whose getters all succeed
\* against a server that sends exactly the bytes of each requested range,
\* stitch writes an output file equal to the resource, byte for byte, and
\* the run ends with the output file and without any part file.
C20_FreshRunCopiesResource ==
    /\ (pc = "unlinking" /\ si = 0 /\ FreshExactRun) =>
           output = File(Bytes(0, resource_length - 1))
    /\ (pc = "done" /\ Present0 = {}) =>
           /\ output.exists
           /\ \A i \in PartIdx : ~parts[i].exists

C20_Witness ==
    /\ pc = "unlinking"
    /\ si = 0
    /\ FreshExactRun
    /\ count = 2
    /\ resource_length = 5
    /\ output.data = <<0, 1, 2, 3, 4>>
====
